---- MODULE Spec2Model ----
(***************************************************************************)
(* abnf_converter: conversion of a parsed ABNF rule list into the          *)
(* JSON-style grammar text (src/abnf_converter/src/main.rs).               *)
(*                                                                         *)
(* Text is modelled as a sequence of characters, each character a string   *)
(* of length one; the two non-ASCII nesting markers are the tokens         *)
(* "U+FF08" and "U+FF09".  A panic and an unbounded recursion are the      *)
(* results PANIC and DIVERGE, which every caller passes on unchanged.      *)
(***************************************************************************)
EXTENDS Integers, Sequences, FiniteSets, TLC

\* ------------------------------------------------------------- bounds
\* Largest number drawn for a repeat count (Specific(n), min, max).
MaxCount == 2
\* Largest number of rules in the input rule list.
MaxRules == 2

\* ---------------------------------------------------------- constants
NESTED_RULE_START == "U+FF08"
NESTED_RULE_END == "U+FF09"

PANIC == <<"panic">>
DIVERGE == <<"diverge">>

Failed(s) == s = PANIC \/ s = DIVERGE

\* a \o b, where the first failure of the two (in evaluation order) is kept
Cat(a, b) == IF Failed(a) THEN a ELSE IF Failed(b) THEN b ELSE a \o b

Cat3(a, b, c) == Cat(Cat(a, b), c)

\* ------------------------------------------------------------- nodes
None == <<>>
Some(n) == <<n>>

Specific(n) == [kind |-> "Specific", n |-> n]
Variable(min, max) == [kind |-> "Variable", min |-> min, max |-> max]

Alternatives(nodes) == [kind |-> "Alternatives", nodes |-> nodes]
Concatenation(nodes) == [kind |-> "Concatenation", nodes |-> nodes]
Repetition(repeat, node) == [kind |-> "Repetition", repeat |-> repeat, node |-> node]
Rulename(name) == [kind |-> "Rulename", name |-> name]
Group(node) == [kind |-> "Group", node |-> node]
Optional(node) == [kind |-> "Optional", node |-> node]
String(s) == [kind |-> "String", s |-> s]
Range(start, end) == [kind |-> "TerminalValues", tv |-> [kind |-> "Range", start |-> start, end |-> end]]
CodepointSeq(cs) == [kind |-> "TerminalValues", tv |-> [kind |-> "Concatenation", cs |-> cs]]
Prose(s) == [kind |-> "Prose", s |-> s]

Rule(name, node) == [name |-> name, node |-> node]

IsRange(node) == node.kind = "TerminalValues" /\ node.tv.kind = "Range"

\* ------------------------------------------------------- formatting
Digits == <<"0", "1", "2", "3", "4", "5", "6", "7", "8", "9">>

\* format!("{n}") of an unsigned integer
RECURSIVE Decimal(_)
Decimal(n) ==
    IF n < 10 THEN <<Digits[n + 1]>>
    ELSE Decimal(n \div 10) \o <<Digits[(n % 10) + 1]>>

Letters == <<"a", "b", "c", "d", "e", "f", "g", "h", "i", "j", "k", "l", "m",
             "n", "o", "p", "q", "r", "s", "t", "u", "v", "w", "x", "y", "z">>

\* char::from_u32: None for a surrogate or a value above 0x10FFFF
ValidScalar(val) == val <= 1114111 /\ ~(val >= 55296 /\ val <= 57343)

\* the character of a valid scalar value
CharOf(val) ==
    IF val >= 97 /\ val <= 122 THEN Letters[val - 96]
    ELSE IF val >= 48 /\ val <= 57 THEN Digits[val - 47]
    ELSE IF val = 34 THEN "\""
    ELSE IF val = 92 THEN "\\"
    ELSE IF val = 45 THEN "-"
    ELSE IF val = 46 THEN "."
    ELSE IF val = 95 THEN "_"
    ELSE "U+" \o ToString(val)

\* format!("{:?}", c.to_string()): the character quoted, a quote or a
\* backslash escaped
DebugStr(c) ==
    IF c = "\"" THEN <<"\"", "\\", "\"", "\"">>
    ELSE IF c = "\\" THEN <<"\"", "\\", "\\", "\"">>
    ELSE <<"\"", c, "\"">>

\* a list in which no node is ever found
ContainsNever(seq, x) == FALSE

\* extra_nodes.contains(main_node)
Contains(seq, x) == \E i \in 1..Len(seq) : seq[i] = x

\* the items joined by sep; the first failed item is the result
RECURSIVE JoinFrom(_, _, _)
JoinFrom(items, sep, i) ==
    IF i > Len(items) THEN <<>>
    ELSE IF Failed(items[i]) THEN items[i]
    ELSE Cat(items[i] \o (IF i < Len(items) THEN sep ELSE <<>>),
             JoinFrom(items, sep, i + 1))

Join(items, sep) == JoinFrom(items, sep, 1)

\* ------------------------------------------------------- extractor
RECURSIVE extract_nested_groups_from_node(_)
RECURSIVE ExtractFromNodes(_, _)

\* the nodes pushed for nodes[i..], in order
ExtractFromNodes(nodes, i) ==
    IF i > Len(nodes) THEN <<>>
    ELSE extract_nested_groups_from_node(nodes[i]) \o ExtractFromNodes(nodes, i + 1)

\* the walk pushing a repetition, group or optional after its inner nodes
ExtractInnerFirst(node) ==
    IF node.kind \in {"Alternatives", "Concatenation"}
        THEN ExtractFromNodes(node.nodes, 1)
    ELSE IF node.kind \in {"Repetition", "Group", "Optional"}
        THEN extract_nested_groups_from_node(node.node) \o <<node>>
    ELSE IF IsRange(node) THEN <<node>>
    ELSE <<>>

\* the nodes this walk pushes onto ret, in the order it pushes them
extract_nested_groups_from_node(node) ==
    IF node.kind \in {"Alternatives", "Concatenation"}
        THEN ExtractFromNodes(node.nodes, 1)
    ELSE IF node.kind \in {"Repetition", "Group", "Optional"}
        THEN <<node>> \o extract_nested_groups_from_node(node.node)
    ELSE IF IsRange(node) THEN <<node>>
    ELSE <<>>

extract_nested_grups_from_rules(rs) ==
    ExtractFromNodes([i \in 1..Len(rs) |-> rs[i].node], 1)

\* -------------------------------------------------- name synthesizer
\* ret.retain(|c| c != '.')
RemoveDots(s) == SelectSeq(s, LAMBDA c : c # ".")

\* ret.replace("_", "underscore")
RECURSIVE ReplaceUnderscore(_)
ReplaceUnderscore(s) ==
    IF s = <<>> THEN <<>>
    ELSE (IF Head(s) = "_"
            THEN <<"u", "n", "d", "e", "r", "s", "c", "o", "r", "e">>
            ELSE <<Head(s)>>) \o ReplaceUnderscore(Tail(s))

\* ret.replace("--", "-minus"): matches taken left to right, not overlapping
RECURSIVE ReplaceDoubleDash(_)
ReplaceDoubleDash(s) ==
    IF Len(s) < 2 THEN s
    ELSE IF s[1] = "-" /\ s[2] = "-"
        THEN <<"-", "m", "i", "n", "u", "s">> \o ReplaceDoubleDash(SubSeq(s, 3, Len(s)))
    ELSE <<s[1]>> \o ReplaceDoubleDash(Tail(s))

\* the first two steps only
SanitizeTwoSteps(s) == IF Failed(s) THEN s ELSE ReplaceUnderscore(RemoveDots(s))

Sanitize(s) ==
    IF Failed(s) THEN s ELSE ReplaceDoubleDash(ReplaceUnderscore(RemoveDots(s)))

\* the fragment with the markers never pushed
NestedNever(s, toplevel) == s

\* the fragment between the nesting markers, which toplevel suppresses
Nested(s, toplevel) ==
    IF toplevel THEN s ELSE Cat3(<<NESTED_RULE_START>>, s, <<NESTED_RULE_END>>)

\* the prefix built from repeat
RepeatPrefix(repeat) ==
    IF repeat.kind = "Specific" THEN Decimal(repeat.n)
    ELSE IF repeat.min # None /\ repeat.max # None
        THEN <<"b", "e", "t", "w", "e", "e", "n", "-">> \o Decimal(repeat.min[1])
             \o <<"-", "a", "n", "d", "-">> \o Decimal(repeat.max[1])
    ELSE IF repeat.min # None
        THEN <<"a", "t", "-", "l", "e", "a", "s", "t", "-">> \o Decimal(repeat.min[1])
    ELSE IF repeat.max # None
        THEN <<"a", "t", "-", "m", "o", "s", "t", "-">> \o Decimal(repeat.max[1])
    ELSE <<"z", "e", "r", "o", "-", "o", "r", "-", "m", "o", "r", "e">>

\* plural never cleared
PluralAlways(repeat, inner) == TRUE

\* the value of plural when the name is formatted
Plural(repeat, inner) ==
    /\ ~(repeat.kind = "Variable" /\ repeat.min # None /\ repeat.max = None
         /\ repeat.min[1] = 1)
    /\ ~(repeat.kind = "Variable" /\ repeat.min = None /\ repeat.max # None
         /\ repeat.max[1] = 1)
    /\ inner.kind \notin {"Group", "Repetition"}

\* the quoted characters of cs joined by "-and-"; a value that is no char panics
CodepointNames(cs) ==
    Join([i \in 1..Len(cs) |->
            IF ValidScalar(cs[i]) THEN DebugStr(CharOf(cs[i])) ELSE PANIC],
         <<"-", "a", "n", "d", "-">>)

RECURSIVE json_rule_name_from_group(_, _)
RECURSIVE repetition_rule_name(_, _)

repetition_rule_name(node, toplevel) ==
    LET rule_name == json_rule_name_from_group(node.node, toplevel)
    IN  Cat3(RepeatPrefix(node.repeat) \o <<"-">>,
             rule_name,
             IF Plural(node.repeat, node.node) THEN <<"s">> ELSE <<>>)

json_rule_name_from_group(node, toplevel) ==
    LET ret ==
        IF node.kind = "Alternatives" THEN
            Nested(Join([i \in 1..Len(node.nodes) |->
                            json_rule_name_from_group(node.nodes[i], FALSE)],
                        <<"-", "o", "r", "-">>), toplevel)
        ELSE IF node.kind = "Concatenation" THEN
            Nested(Join([i \in 1..Len(node.nodes) |->
                            json_rule_name_from_group(node.nodes[i], FALSE)],
                        <<"-", "a", "n", "d", "-">>), toplevel)
        ELSE IF node.kind = "Repetition" THEN
            Nested(repetition_rule_name(node, FALSE), toplevel)
        ELSE IF node.kind = "Rulename" THEN node.name
        ELSE IF node.kind = "Group" THEN
            json_rule_name_from_group(node.node, toplevel)
        ELSE IF node.kind = "Optional" THEN
            Cat(<<"o", "p", "t", "i", "o", "n", "a", "l", "-">>,
                json_rule_name_from_group(node.node, FALSE))
        ELSE IF node.kind = "String" THEN node.s
        ELSE IF node.kind = "TerminalValues" THEN
            IF node.tv.kind = "Range" THEN
                Nested(<<"b">> \o Decimal(node.tv.start) \o <<"-", "t", "o", "-", "b">>
                       \o Decimal(node.tv.end), toplevel)
            ELSE Nested(CodepointNames(node.tv.cs), toplevel)
        ELSE PANIC
    IN  Sanitize(ret)

\* --------------------------------------------------- body synthesizer
\* format!("\"<{}>\"", name)
Reference(name) == Cat3(<<"\"", "<">>, name, <<">", "\"">>)

\* the substitution branch with the name taken in nested position
SubstituteNested(main_node) ==
    Reference(json_rule_name_from_group(main_node, FALSE))

\* the substitution branch: a reference by the node's toplevel name
Substitute(main_node) == Reference(json_rule_name_from_group(main_node, TRUE))

\* the loop "for i in 0..n { push single; if i < n - 1 { push ", " } }"
\* from its iteration i on
RECURSIVE CopiesLoop(_, _, _)
CopiesLoop(single, n, i) ==
    IF i >= n THEN <<>>
    ELSE single \o (IF i < n - 1 THEN <<",", " ">> ELSE <<>>)
         \o CopiesLoop(single, n, i + 1)

\* Repeat::Specific(n) with a separator after every copy
RepeatSpecificTrailing(single, n) ==
    <<"[">> \o CopiesLoop(single, n, 0)
    \o (IF n > 0 THEN <<",", " ">> ELSE <<>>) \o <<"]">>

\* Repeat::Specific(n)
RepeatSpecific(single, n) == <<"[">> \o CopiesLoop(single, n, 0) \o <<"]">>

\* Variable { min: Some(min), max: None } with min copies in the recursive
\* alternative too
RepeatAtLeastCopies(single, min, more) ==
    <<"[">> \o CopiesLoop(single, min, 0)
    \o <<"]", ",", " ", "[">> \o CopiesLoop(single, min, 0)
    \o (IF min > 0 THEN <<",", " ">> ELSE <<>>) \o <<"\"", "<">> \o more
    \o <<">", "\"", "]">>

\* Variable { min: Some(min), max: None }; more is the name written in the
\* recursive alternative
RepeatAtLeast(single, min, more) ==
    <<"[">> \o CopiesLoop(single, min, 0)
    \o <<"]", ",", " ", "[">> \o single \o <<",", " ", "\"", "<">> \o more
    \o <<">", "\"", "]">>

\* the outer loop "for i in 0..max" of Variable { min: None, max: Some(max) }
\* from its iteration i on
RECURSIVE AtMostLoop(_, _, _)
AtMostLoop(single, max, i) ==
    IF i >= max THEN <<>>
    ELSE <<"[">> \o CopiesLoop(single, i + 1, 0) \o <<"]">>
         \o (IF i < max - 1 THEN <<",", " ">> ELSE <<>>)
         \o AtMostLoop(single, max, i + 1)

\* Variable { min: None, max: Some(max) }
RepeatAtMost(single, max) == <<"[", "]", ",", " ">> \o AtMostLoop(single, max, 0)

\* Variable { min: None, max: None } without the empty alternative
RepeatZeroOrMoreNoEmpty(single, more) ==
    <<"[">> \o single \o <<",", " ">> \o more \o <<"]">>

\* Variable { min: None, max: None }; more is the body of the node itself
RepeatZeroOrMore(single, more) ==
    <<"[", "]", ",", " ", "[">> \o single \o <<",", " ">> \o more \o <<"]">>

\* Node::String: a lone backslash is escaped
StringBody(s) ==
    IF s = <<"\\">> THEN <<"\"", "\\">> \o s \o <<"\"">>
    ELSE <<"\"">> \o s \o <<"\"">>

\* one "[{:?}]" per value, joined by ", "; a value that is no char panics
CodepointBodies(vals) ==
    Join([i \in 1..Len(vals) |->
            IF ValidScalar(vals[i])
                THEN <<"[">> \o DebugStr(CharOf(vals[i])) \o <<"]">>
                ELSE PANIC],
         <<",", " ">>)

\* the values of start..=end, in order
RangeValues(start, end) ==
    IF start > end THEN <<>> ELSE [i \in 1..(end - start + 1) |-> start + i - 1]

RECURSIVE json_rule_body_from_group(_, _, _)
json_rule_body_from_group(main_node, extra_nodes, toplevel) ==
    IF ~toplevel /\ Contains(extra_nodes, main_node) THEN Substitute(main_node)
    ELSE IF main_node.kind = "Alternatives" THEN
        Join([i \in 1..Len(main_node.nodes) |->
                Cat3(<<"[">>,
                     json_rule_body_from_group(main_node.nodes[i], extra_nodes, FALSE),
                     <<"]">>)],
             <<",", " ">>)
    ELSE IF main_node.kind = "Concatenation" THEN
        Join([i \in 1..Len(main_node.nodes) |->
                json_rule_body_from_group(main_node.nodes[i], extra_nodes, FALSE)],
             <<",", " ">>)
    ELSE IF main_node.kind = "Repetition" THEN
        LET repeat == main_node.repeat
            single == json_rule_body_from_group(main_node.node, extra_nodes, FALSE)
        IN  IF repeat.kind = "Specific" THEN
                IF Failed(single) THEN single ELSE RepeatSpecific(single, repeat.n)
            ELSE IF repeat.min # None /\ repeat.max # None THEN PANIC
            ELSE IF repeat.min # None THEN
                LET more == json_rule_name_from_group(main_node, FALSE)
                IN  IF Failed(single) THEN single
                    ELSE IF Failed(more) THEN more
                    ELSE RepeatAtLeast(single, repeat.min[1], more)
            ELSE IF repeat.max # None THEN
                IF Failed(single) THEN single ELSE RepeatAtMost(single, repeat.max[1])
            ELSE
                IF Failed(single) THEN single
                ELSE IF ~Contains(extra_nodes, main_node) THEN DIVERGE
                ELSE LET more == json_rule_body_from_group(main_node, extra_nodes, FALSE)
                     IN  IF Failed(more) THEN more ELSE RepeatZeroOrMore(single, more)
    ELSE IF main_node.kind = "Rulename" THEN Reference(main_node.name)
    ELSE IF main_node.kind = "Group" THEN
        json_rule_body_from_group(main_node.node, extra_nodes, FALSE)
    ELSE IF main_node.kind = "Optional" THEN
        Cat3(<<"[", "]", ",", " ", "[">>,
             json_rule_body_from_group(main_node.node, extra_nodes, FALSE),
             <<"]">>)
    ELSE IF main_node.kind = "String" THEN StringBody(main_node.s)
    ELSE IF main_node.kind = "TerminalValues" THEN
        IF main_node.tv.kind = "Range"
            THEN CodepointBodies(RangeValues(main_node.tv.start, main_node.tv.end))
            ELSE CodepointBodies(main_node.tv.cs)
    ELSE PANIC

add_missing_body_brackets(body) ==
    IF ~(Len(body) > 0 /\ body[1] = "[") THEN <<"[">> \o body \o <<"]">> ELSE body

\* ------------------------------------------------------------ inputs
RN(c) == Rulename(<<c>>)

Counts == 0..MaxCount

Options == {None} \cup {Some(n) : n \in Counts}

Repeats ==
    {Specific(n) : n \in Counts}
    \cup {Variable(min, max) : min \in Options, max \in Options}

ZeroOrMore == Variable(None, None)

\* 55296 is 0xD800, a surrogate: a u32 that is no char
Leaves ==
    {RN("a"), RN("b"), String(<<"a">>), String(<<"\\">>), Range(97, 98),
     CodepointSeq(<<97, 98>>), Range(98, 97), Range(55296, 55296),
     CodepointSeq(<<97, 55296>>), Prose(<<"p">>)}

Operands ==
    {RN("a"), RN("b"), String(<<"a">>), String(<<"-">>), String(<<".", "_">>)}

Lists ==
    {Alternatives(<<x, y>>) : x \in Operands, y \in Operands}
    \cup {Concatenation(<<x, y>>) : x \in Operands, y \in Operands}

Repeated ==
    {RN("a"), String(<<"a">>), CodepointSeq(<<97, 98>>), Group(RN("a")),
     Group(Alternatives(<<RN("a"), RN("b")>>)), Repetition(ZeroOrMore, RN("a"))}

Repetitions == {Repetition(r, x) : r \in Repeats, x \in Repeated}

Wrapped ==
    {Group(x) : x \in Leaves \cup Lists} \cup {Optional(x) : x \in Leaves \cup Lists}
    \cup {Group(Repetition(r, RN("a"))) : r \in Repeats}

\* the rule bodies of the test suite's SIMPLE_RULESET, and rules where an
\* extracted node occurs twice or beside a code-point sequence
Examples ==
    {Concatenation(<<RN("a"), Group(Alternatives(<<RN("b"), RN("c")>>))>>),
     Concatenation(<<RN("a"), Group(Concatenation(<<RN("b"), RN("c")>>))>>),
     Concatenation(<<RN("a"),
        Group(Alternatives(<<RN("b"), Group(Alternatives(<<RN("a"), RN("c")>>))>>))>>),
     Concatenation(<<RN("a"),
        Group(Concatenation(<<RN("b"), Group(Concatenation(<<RN("a"), RN("c")>>))>>))>>),
     Concatenation(<<Group(Alternatives(<<RN("a"), RN("b")>>)),
                     Group(Alternatives(<<RN("a"), RN("b")>>))>>),
     Concatenation(<<Repetition(Variable(Some(1), None), RN("a")),
                     Optional(Repetition(Variable(Some(1), None), RN("a")))>>),
     Alternatives(<<Repetition(ZeroOrMore, RN("a")), Range(97, 98)>>),
     Concatenation(<<CodepointSeq(<<97, 98>>), RN("a")>>),
     Concatenation(<<RN("a"), CodepointSeq(<<97, 98>>)>>),
     Repetition(ZeroOrMore, CodepointSeq(<<97, 55296>>)),
     Repetition(ZeroOrMore, Repetition(Variable(Some(1), Some(2)), RN("a"))),
     Optional(Repetition(ZeroOrMore, RN("a")))}

Universe == Leaves \cup Lists \cup Repetitions \cup Wrapped \cup Examples

\* the nodes of the rules after the first
Followers ==
    {RN("b"), Repetition(ZeroOrMore, String(<<"a">>)),
     Group(Alternatives(<<RN("a"), RN("b")>>)),
     Optional(Repetition(Variable(Some(1), None), RN("a")))}

\* rule names are unique: the i-th rule's name
RuleNameAt(i) ==
    IF i = 1 THEN <<"x">> ELSE IF i = 2 THEN <<"a">> ELSE <<"r">> \o Decimal(i)

\* the lists of n nodes: one of Universe, then Followers
RECURSIVE NodeLists(_)
NodeLists(n) ==
    IF n = 0 THEN {<<>>}
    ELSE IF n = 1 THEN {<<u>> : u \in Universe}
    ELSE {Append(ns, f) : ns \in NodeLists(n - 1), f \in Followers}

RuleLists ==
    UNION {{[i \in 1..n |-> Rule(RuleNameAt(i), ns[i])] : ns \in NodeLists(n)} :
            n \in 0..MaxRules}

\* ------------------------------------------------------ the program
VARIABLES
    rules,              \* main: abnf_rules, the parsed rule list
    extra_nodes,        \* ruleset_to_json: extra_nodes
    known_rule_names,   \* extract_rules_for_nested_groups: known_rule_names
    rule_name,          \* the name of the entry being written
    body,               \* the body json_rule_body_from_group returned for it
    ret,                \* the text built so far
    idx,                \* the position of the running loop
    pc,                 \* the position in the program
    stdout              \* what main has printed

vars == <<rules, extra_nodes, known_rule_names, rule_name, body, ret, idx, pc, stdout>>

Init ==
    /\ rules \in RuleLists
    /\ extra_nodes = <<>>
    /\ known_rule_names = {}
    /\ rule_name = <<>>
    /\ body = <<>>
    /\ ret = <<>>
    /\ idx = 0
    /\ pc = "main"
    /\ stdout = <<>>

\* where the program goes once the loop over extra_nodes is over
AfterNested == IF Len(rules) = 0 THEN "close" ELSE "rule"

\* ruleset_to_json, up to the extraction
Extract ==
    /\ pc = "main"
    /\ ret' = <<"{", "\n">>
    /\ extra_nodes' = extract_nested_grups_from_rules(rules)
    /\ pc' = "start"
    /\ UNCHANGED <<rules, known_rule_names, rule_name, body, idx, stdout>>

\* format!("\"<start>\": [[\"program\"]]")
start_rule ==
    <<"\"", "<", "s", "t", "a", "r", "t", ">", "\"", ":", " ", "[", "[", "\"",
      "p", "r", "o", "g", "r", "a", "m", "\"", "]", "]">>

\* extract_rules_for_nested_groups, up to its loop
StartRule ==
    /\ pc = "start"
    /\ ret' = ret \o <<" ", " ">> \o start_rule \o <<",", "\n">>
    /\ idx' = 1
    /\ pc' = IF extra_nodes = <<>> THEN AfterNested ELSE "nested_name"
    /\ UNCHANGED <<rules, extra_nodes, known_rule_names, rule_name, body, stdout>>

\* a set that never reports a name as present
IsKnownNever(known, name) == FALSE

\* !known_rule_names.insert(rule_name.clone())
IsKnown(known, name) == name \in known

\* one iteration of the loop, up to the continue
NestedName ==
    /\ pc = "nested_name"
    /\ LET name == json_rule_name_from_group(extra_nodes[idx], TRUE)
       IN  IF Failed(name)
               THEN /\ pc' = "panicked"
                    /\ UNCHANGED <<rule_name, known_rule_names, idx>>
           ELSE IF IsKnown(known_rule_names, name)
               THEN /\ pc' = IF idx = Len(extra_nodes) THEN AfterNested ELSE "nested_name"
                    /\ idx' = IF idx = Len(extra_nodes) THEN 1 ELSE idx + 1
                    /\ UNCHANGED <<rule_name, known_rule_names>>
           ELSE /\ pc' = "nested_body"
                /\ rule_name' = name
                /\ known_rule_names' = known_rule_names \cup {name}
                /\ UNCHANGED idx
    /\ UNCHANGED <<rules, extra_nodes, body, ret, stdout>>

\* format!("\"<{rule_name}>\": [{body}]")
FormatRule(name, bracketed) ==
    <<"\"", "<">> \o name \o <<">", "\"", ":", " ", "[">> \o bracketed \o <<"]">>

\* the rest of the iteration: the body, and the entry pushed
NestedBody ==
    /\ pc = "nested_body"
    /\ LET b == json_rule_body_from_group(extra_nodes[idx], extra_nodes, TRUE)
       IN  IF Failed(b)
               THEN /\ pc' = "panicked"
                    /\ UNCHANGED <<body, ret>>
           ELSE /\ body' = b
                /\ ret' = ret \o <<" ", " ">>
                          \o FormatRule(rule_name, add_missing_body_brackets(b))
                          \o <<",", "\n">>
                /\ pc' = "nested_pushed"
    /\ UNCHANGED <<rules, extra_nodes, known_rule_names, rule_name, idx, stdout>>

\* the loop over extra_nodes moves on
NestedNext ==
    /\ pc = "nested_pushed"
    /\ pc' = IF idx = Len(extra_nodes) THEN AfterNested ELSE "nested_name"
    /\ idx' = IF idx = Len(extra_nodes) THEN 1 ELSE idx + 1
    /\ UNCHANGED <<rules, extra_nodes, known_rule_names, rule_name, body, ret, stdout>>

\* rule_to_json, and its result pushed
rule_to_json ==
    /\ pc = "rule"
    /\ LET b == json_rule_body_from_group(rules[idx].node, extra_nodes, FALSE)
       IN  IF Failed(b)
               THEN /\ pc' = "panicked"
                    /\ UNCHANGED <<rule_name, body, ret>>
           ELSE /\ rule_name' = rules[idx].name
                /\ body' = b
                /\ ret' = ret \o <<" ", " ">>
                          \o FormatRule(rules[idx].name, add_missing_body_brackets(b))
                /\ pc' = "rule_pushed"
    /\ UNCHANGED <<rules, extra_nodes, known_rule_names, idx, stdout>>

\* the separator after a rule that is not the last
RuleNext ==
    /\ pc = "rule_pushed"
    /\ IF idx < Len(rules)
           THEN /\ ret' = ret \o <<",", " ", "\n">>
                /\ idx' = idx + 1
                /\ pc' = "rule"
       ELSE /\ pc' = "close"
            /\ UNCHANGED <<ret, idx>>
    /\ UNCHANGED <<rules, extra_nodes, known_rule_names, rule_name, body, stdout>>

\* ruleset_to_json returns the closed object
Close ==
    /\ pc = "close"
    /\ ret' = ret \o <<"\n", "}">>
    /\ pc' = "print"
    /\ UNCHANGED <<rules, extra_nodes, known_rule_names, rule_name, body, idx, stdout>>

\* main: println!("{json}")
PrintJson ==
    /\ pc = "print"
    /\ stdout' = ret \o <<"\n">>
    /\ pc' = "exit"
    /\ UNCHANGED <<rules, extra_nodes, known_rule_names, rule_name, body, ret, idx>>

Next ==
    \/ Extract
    \/ StartRule
    \/ NestedName
    \/ NestedBody
    \/ NestedNext
    \/ rule_to_json
    \/ RuleNext
    \/ Close
    \/ PrintJson

Spec == Init /\ [][Next]_vars

\* ------------------------- json_rule_body_from_group, called on its own
\* the complete extraction result of the rule list
Complete == extract_nested_grups_from_rules(rules)

\* seq with every node equal to x left out
Without(seq, x) == SelectSeq(seq, LAMBDA y : y # x)

\* the extra_nodes arguments: the complete list, or the list lacking one node
CallLists(complete) ==
    {complete} \cup {Without(complete, complete[k]) : k \in 1..Len(complete)}

\* one rule, and an extra_nodes list for the call
CallInit ==
    /\ rules \in {rl \in RuleLists : Len(rl) = 1}
    /\ extra_nodes \in CallLists(extract_nested_grups_from_rules(rules))
    /\ known_rule_names = {}
    /\ rule_name = <<>>
    /\ body = <<>>
    /\ ret = <<>>
    /\ idx = 0
    /\ pc = "call"
    /\ stdout = <<>>

\* how the call ends: it returns result, it aborts, or it recurses for ever
CallEnds(result) ==
    /\ pc' = IF result = PANIC THEN "panicked"
             ELSE IF result = DIVERGE THEN "diverged" ELSE "returned"
    /\ body' = IF Failed(result) THEN body ELSE result

\* the call rule_to_json makes: the rule's node, toplevel false
CallRule ==
    /\ pc = "call"
    /\ CallEnds(json_rule_body_from_group(rules[1].node, extra_nodes, FALSE))
    /\ UNCHANGED <<rules, extra_nodes, known_rule_names, rule_name, ret, idx, stdout>>

\* the call extract_rules_for_nested_groups makes: an extracted node,
\* toplevel true
CallExtracted ==
    /\ pc = "call"
    /\ \E k \in 1..Len(Complete) :
          /\ idx' = k
          /\ CallEnds(json_rule_body_from_group(Complete[k], extra_nodes, TRUE))
    /\ UNCHANGED <<rules, extra_nodes, known_rule_names, rule_name, ret, stdout>>

CallNext ==
    \/ CallRule
    \/ CallExtracted

CallSpec == CallInit /\ [][CallNext]_vars

\* ------------------------------------------- reading the emitted text
StartsWith(s, prefix) ==
    Len(s) >= Len(prefix) /\ SubSeq(s, 1, Len(prefix)) = prefix

EndsWith(s, suffix) ==
    Len(s) >= Len(suffix) /\ SubSeq(s, Len(s) - Len(suffix) + 1, Len(s)) = suffix

\* the least position from i on where pat occurs in s, 0 when there is none
RECURSIVE IndexOf(_, _, _)
IndexOf(s, pat, i) ==
    IF i + Len(pat) - 1 > Len(s) THEN 0
    ELSE IF SubSeq(s, i, i + Len(pat) - 1) = pat THEN i
    ELSE IndexOf(s, pat, i + 1)

\* the lines of text
RECURSIVE LinesOf(_)
LinesOf(text) ==
    LET nl == IndexOf(text, <<"\n">>, 1)
    IN  IF nl = 0 THEN <<text>>
        ELSE <<SubSeq(text, 1, nl - 1)>> \o LinesOf(SubSeq(text, nl + 1, Len(text)))

\* the lines of text that hold an entry: "  \"<key>\": value" and a separator
EntryLines(text) ==
    SelectSeq(LinesOf(text), LAMBDA l : StartsWith(l, <<" ", " ", "\"", "<">>))

KeyEnd(line) == IndexOf(line, <<">", "\"", ":", " ">>, 1)

KeyOf(line) == SubSeq(line, 5, KeyEnd(line) - 1)

\* the value of an entry line, its separator ("," or ", ") dropped
ValueOf(line) ==
    LET rest == SubSeq(line, KeyEnd(line) + 4, Len(line))
    IN  IF EndsWith(rest, <<",", " ">>) THEN SubSeq(rest, 1, Len(rest) - 2)
        ELSE IF EndsWith(rest, <<",">>) THEN SubSeq(rest, 1, Len(rest) - 1)
        ELSE rest

Keys(text) ==
    LET lines == EntryLines(text)
    IN  [i \in 1..Len(lines) |-> KeyOf(lines[i])]

\* a list of alternatives, each a flat list of quoted elements: the state of
\* the scan after one more character (12: rejected, 11: the list is closed)
ScanStep(q, c) ==
    CASE q = 0 -> IF c = "[" THEN 1 ELSE 12
      [] q = 1 -> IF c = "[" THEN 2 ELSE IF c = "]" THEN 11 ELSE 12
      [] q = 2 -> IF c = "\"" THEN 3 ELSE IF c = "]" THEN 8 ELSE 12
      [] q = 3 -> IF c = "\\" THEN 4 ELSE IF c = "\"" THEN 5 ELSE 3
      [] q = 4 -> 3
      [] q = 5 -> IF c = "," THEN 6 ELSE IF c = "]" THEN 8 ELSE 12
      [] q = 6 -> IF c = " " THEN 7 ELSE 12
      [] q = 7 -> IF c = "\"" THEN 3 ELSE 12
      [] q = 8 -> IF c = "," THEN 9 ELSE IF c = "]" THEN 11 ELSE 12
      [] q = 9 -> IF c = " " THEN 10 ELSE 12
      [] q = 10 -> IF c = "[" THEN 2 ELSE 12
      [] OTHER -> 12

RECURSIVE Scan(_, _, _)
Scan(s, i, q) == IF i > Len(s) THEN q ELSE Scan(s, i + 1, ScanStep(q, s[i]))

ListOfFlatAlternatives(value) == Scan(value, 1, 0) = 11

\* ------------------------------------------------- stating the claims
\* the items joined by ", "
RECURSIVE CommaJoined(_)
CommaJoined(items) ==
    IF Len(items) = 0 THEN <<>>
    ELSE IF Len(items) = 1 THEN items[1]
    ELSE items[1] \o <<",", " ">> \o CommaJoined(Tail(items))

\* one bracketed sequence of the items
Sequence(items) == <<"[">> \o CommaJoined(items) \o <<"]">>

Copies(x, k) == [i \in 1..k |-> x]

Quoted(name) == <<"\"", "<">> \o name \o <<">", "\"">>

Finished == pc \in {"print", "exit"}

\* the extracted node whose entry has just been written
Pushed == pc = "nested_pushed"

Cur == extra_nodes[idx]

\* the body of the inner node of the repetition just written: X
X == json_rule_body_from_group(Cur.node, extra_nodes, FALSE)

PushedRepetition == Pushed /\ Cur.kind = "Repetition"

PushedSpecific == PushedRepetition /\ Cur.repeat.kind = "Specific"

PushedVariable == PushedRepetition /\ Cur.repeat.kind = "Variable"

PushedAtLeast == PushedVariable /\ Cur.repeat.min # None /\ Cur.repeat.max = None

PushedAtMost == PushedVariable /\ Cur.repeat.min = None /\ Cur.repeat.max # None

PushedZeroOrMore == PushedVariable /\ Cur.repeat.min = None /\ Cur.repeat.max = None

\* the toplevel name of the k-th extracted node: the key of its entry
NameOf(k) == json_rule_name_from_group(extra_nodes[k], TRUE)

\* what a child of a rule's concatenation contributes to the rule's body
ChildBody(child) ==
    IF Contains(extra_nodes, child)
        THEN Quoted(json_rule_name_from_group(child, TRUE))
        ELSE json_rule_body_from_group(child, extra_nodes, FALSE)

\* C1: every node equal to a member of extra_nodes is emitted as the
\* reference "<N>", never inlined, wherever it is not the toplevel node of
\* its own rule (as the root of an original rule, as a child of a rule's
\* concatenation, in any non-toplevel call, decided once extra_nodes is
\* built), and N is the key under which the text ruleset_to_json returns
\* holds the rule for that node.
C1_ExtractedNodesAreReferenced ==
    /\ pc = "start" =>
          \A k \in 1..Len(extra_nodes) :
              ~Failed(NameOf(k)) =>
                  json_rule_body_from_group(extra_nodes[k], extra_nodes, FALSE)
                      = Quoted(NameOf(k))
    /\ (pc = "rule_pushed" /\ Contains(extra_nodes, rules[idx].node)) =>
          body = Quoted(json_rule_name_from_group(rules[idx].node, TRUE))
    /\ (pc = "rule_pushed" /\ rules[idx].node.kind = "Concatenation") =>
          body = CommaJoined([i \in 1..Len(rules[idx].node.nodes) |->
                                ChildBody(rules[idx].node.nodes[i])])
    /\ pc = "print" =>
          LET keys == Keys(ret)
          IN  \A k \in 1..Len(extra_nodes) : Contains(keys, NameOf(k))

\* the rule "a ( b / c )" has been written as "<a>", "<b-or-c>"
C1_Witness ==
    /\ pc = "rule_pushed"
    /\ rules[idx].node
         = Concatenation(<<RN("a"), Group(Alternatives(<<RN("b"), RN("c")>>))>>)
    /\ Contains(extra_nodes, Group(Alternatives(<<RN("b"), RN("c")>>)))
    /\ body = <<"\"", "<", "a", ">", "\"", ",", " ",
                "\"", "<", "b", "-", "o", "r", "-", "c", ">", "\"">>

\* C2: the self-reference written in the recursive alternative of an
\* at-least-m repetition, and of a zero-or-more repetition, is the reference
\* to the key under which the repetition's own rule is emitted.
C2_SelfReferenceIsKey ==
    (PushedAtLeast \/ PushedZeroOrMore) =>
        EndsWith(body, <<",", " ">> \o Quoted(rule_name) \o <<"]">>)

\* the self-reference of a repetition: a reference by its synthesized name
SelfReferences ==
    {Quoted(json_rule_name_from_group(Cur, TRUE)),
     Quoted(json_rule_name_from_group(Cur, FALSE))}

\* C3 as stated: the toplevel body of Repetition{Variable{min: Some(m),
\* max: None}, inner} has exactly two alternatives, (a) m copies of X and
\* (b) m copies of X followed by the self-reference.
C3_AtLeastBodyAsStated ==
    PushedAtLeast =>
        \E self \in SelfReferences :
            body = CommaJoined(<<Sequence(Copies(X, Cur.repeat.min[1])),
                                 Sequence(Copies(X, Cur.repeat.min[1]) \o <<self>>)>>)

\* C3 as amended: the toplevel body of Repetition{Variable{min: Some(m),
\* max: None}, inner} has exactly two alternatives, (a) m copies of X and
\* (b) one copy of X followed by the self-reference.
C3_AtLeastBody ==
    PushedAtLeast =>
        \E self \in SelfReferences :
            body = CommaJoined(<<Sequence(Copies(X, Cur.repeat.min[1])),
                                 Sequence(<<X, self>>)>>)

\* "2*a" has been written: two copies, then one copy and the self-reference
C3_Witness ==
    /\ PushedAtLeast
    /\ Cur.repeat.min[1] = 2
    /\ Cur.node = RN("a")
    /\ StartsWith(body, <<"[", "\"", "<", "a", ">", "\"", ",", " ", "\"", "<", "a",
                          ">", "\"", "]", ",", " ", "[", "\"", "<", "a", ">", "\"",
                          ",", " ", "\"", "<">>)

RECURSIVE HasBothBounded(_)
\* node holds, at some depth, a repetition with both bounds
HasBothBounded(node) ==
    IF node.kind \in {"Alternatives", "Concatenation"}
        THEN \E i \in 1..Len(node.nodes) : HasBothBounded(node.nodes[i])
    ELSE IF node.kind = "Repetition"
        THEN \/ /\ node.repeat.kind = "Variable"
                /\ node.repeat.min # None
                /\ node.repeat.max # None
             \/ HasBothBounded(node.node)
    ELSE IF node.kind \in {"Group", "Optional"} THEN HasBothBounded(node.node)
    ELSE FALSE

IsBothBounded(node) ==
    /\ node.kind = "Repetition"
    /\ node.repeat.kind = "Variable"
    /\ node.repeat.min # None
    /\ node.repeat.max # None

\* C4: when a rule holds, at any depth, a repetition with both bounds, the
\* run fails and prints nothing, neither ruleset_to_json returning nor main
\* printing; the name of such a node starts "between-{min}-and-{max}-".
C4_BothBoundedAborts ==
    /\ (\E i \in 1..Len(rules) : HasBothBounded(rules[i].node)) =>
          (pc \notin {"close", "print", "exit"} /\ stdout = <<>>)
    /\ \A k \in 1..Len(extra_nodes) :
          IsBothBounded(extra_nodes[k]) =>
              StartsWith(NameOf(k),
                         <<"b", "e", "t", "w", "e", "e", "n", "-">>
                         \o Decimal(extra_nodes[k].repeat.min[1])
                         \o <<"-", "a", "n", "d", "-">>
                         \o Decimal(extra_nodes[k].repeat.max[1]) \o <<"-">>)

\* C5: on success every entry's value is a list of alternatives, each a flat
\* list of quoted elements, with no nested list, no element outside an
\* alternative, no empty slot and no trailing separator.
C5_FlatAlternatives ==
    Finished =>
        LET lines == EntryLines(ret)
        IN  \A i \in 1..Len(lines) : ListOfFlatAlternatives(ValueOf(lines[i]))

\* C6: the first entry is "<start>", and its value is one alternative of one
\* element that is a rule reference "<root-rule>".
C6_StartRuleIsReference ==
    pc \notin {"main", "start"} =>
        LET first == EntryLines(ret)[1]
        IN  /\ KeyOf(first) = <<"s", "t", "a", "r", "t">>
            /\ StartsWith(ValueOf(first), <<"[", "[", "\"", "<">>)
            /\ EndsWith(ValueOf(first), <<">", "\"", "]", "]">>)
            /\ IndexOf(ValueOf(first), <<",">>, 1) = 0

\* no earlier extracted node has the name of the k-th
FirstSeen(k) == \A j \in 1..(k - 1) : NameOf(j) # NameOf(k)

ExtractedEntry(k) ==
    <<" ", " ">> \o Quoted(NameOf(k)) \o <<":", " ", "[">>
    \o add_missing_body_brackets(
           json_rule_body_from_group(extra_nodes[k], extra_nodes, TRUE))
    \o <<"]", ",", "\n">>

RECURSIVE ExtractedEntries(_)
ExtractedEntries(k) ==
    IF k > Len(extra_nodes) THEN <<>>
    ELSE (IF FirstSeen(k) THEN ExtractedEntry(k) ELSE <<>>) \o ExtractedEntries(k + 1)

RuleEntry(i) ==
    <<" ", " ">> \o Quoted(rules[i].name) \o <<":", " ", "[">>
    \o add_missing_body_brackets(
           json_rule_body_from_group(rules[i].node, extra_nodes, FALSE))
    \o <<"]">>

RECURSIVE RuleEntries(_)
RuleEntries(i) ==
    IF i > Len(rules) THEN <<>>
    ELSE RuleEntry(i) \o (IF i < Len(rules) THEN <<",", " ", "\n">> ELSE <<>>)
         \o RuleEntries(i + 1)

\* the names of the extracted nodes from the k-th on, each at its first node
RECURSIVE DistinctNames(_)
DistinctNames(k) ==
    IF k > Len(extra_nodes) THEN <<>>
    ELSE (IF FirstSeen(k) THEN <<NameOf(k)>> ELSE <<>>) \o DistinctNames(k + 1)

\* C7: the emitted grammar is, in this order, the start rule, one entry per
\* distinct synthesized name of the extracted nodes in discovery order with
\* the toplevel body of the first node of that name, and one entry per
\* original rule in declaration order under the rule's own name (read off
\* the text ruleset_to_json has returned).
C7_EntriesInOrder ==
    pc = "print" =>
        /\ ret = <<"{", "\n">> \o <<" ", " ">> \o start_rule \o <<",", "\n">>
                 \o ExtractedEntries(1) \o RuleEntries(1) \o <<"\n", "}">>
        /\ Keys(ret) = <<(<<"s", "t", "a", "r", "t">>)>> \o DistinctNames(1)
                       \o [i \in 1..Len(rules) |-> rules[i].name]

\* two rules have been written, and two structurally different extracted
\* nodes shared a name
C7_Witness ==
    /\ pc = "print"
    /\ Len(rules) = 2
    /\ \E j \in 1..Len(extra_nodes) : \E k \in 1..Len(extra_nodes) :
          j < k /\ extra_nodes[j] # extra_nodes[k] /\ NameOf(j) = NameOf(k)
              /\ extra_nodes[j].kind = extra_nodes[k].kind

\* C8: the toplevel body of Repetition{Variable{min: None, max: None}, inner}
\* is the two alternatives "[]" and "[X, "<self>"]", self its toplevel name;
\* for "*a" the name is zero-or-more-as and the body
\* [], ["<a>", "<zero-or-more-as>"].
C8_ZeroOrMoreBody ==
    PushedZeroOrMore =>
        /\ rule_name = json_rule_name_from_group(Cur, TRUE)
        /\ body = CommaJoined(<<Sequence(<<>>), Sequence(<<X, Quoted(rule_name)>>)>>)
        /\ Cur = Repetition(ZeroOrMore, RN("a")) =>
              /\ rule_name = <<"z", "e", "r", "o", "-", "o", "r", "-", "m", "o", "r",
                               "e", "-", "a", "s">>
              /\ body = <<"[", "]", ",", " ", "[", "\"", "<", "a", ">", "\"", ",",
                          " ", "\"", "<", "z", "e", "r", "o", "-", "o", "r", "-",
                          "m", "o", "r", "e", "-", "a", "s", ">", "\"", "]">>

\* "*a" has been written
C8_Witness == PushedZeroOrMore /\ Cur = Repetition(ZeroOrMore, RN("a"))

\* C9: the toplevel body of Repetition{Variable{min: None, max: Some(M)},
\* inner} has exactly M+1 alternatives, the k-th (k = 0..M) a bracketed
\* sequence of k copies of X, for every M >= 0.
C9_AtMostBody ==
    PushedAtMost =>
        body = CommaJoined([k \in 1..(Cur.repeat.max[1] + 1) |->
                              Sequence(Copies(X, k - 1))])

\* C10: the toplevel body of Repetition{Specific(n), inner} is one bracketed
\* sequence of exactly n comma-joined copies of X; for n = 0 it is "[]".
C10_SpecificBody ==
    PushedSpecific =>
        /\ body = Sequence(Copies(X, Cur.repeat.n))
        /\ Cur.repeat.n = 0 => body = <<"[", "]">>

\* "2a" has been written as two copies of "<a>" in one sequence
C10_Witness ==
    /\ PushedSpecific
    /\ Cur.repeat.n = 2
    /\ body = <<"[", "\"", "<", "a", ">", "\"", ",", " ", "\"", "<", "a", ">",
                "\"", "]">>

\* the rule whose body has just been written
RulePushed == pc = "rule_pushed"

IsCodepointSeq(node) == node.kind = "TerminalValues" /\ node.tv.kind = "Concatenation"

\* C11: the body of a code-point sequence v1..vk is one sequence whose
\* elements are the single-character literals of v1..vk, comma-joined: one
\* alternative of k elements, not k alternatives.
C11_CodepointSeqBody ==
    (RulePushed /\ IsCodepointSeq(rules[idx].node)) =>
        body = CommaJoined([i \in 1..Len(rules[idx].node.tv.cs) |->
                              DebugStr(CharOf(rules[idx].node.tv.cs[i]))])

\* the children of a node, in order
Children(node) ==
    IF node.kind \in {"Alternatives", "Concatenation"} THEN node.nodes
    ELSE IF node.kind \in {"Repetition", "Group", "Optional"} THEN <<node.node>>
    ELSE <<>>

\* the occurrences of nodes in a tree: each the child positions from the root
RECURSIVE PathsOf(_)
PathsOf(node) ==
    {<<>>} \cup UNION {{<<i>> \o p : p \in PathsOf(Children(node)[i])} :
                         i \in 1..Len(Children(node))}

RECURSIVE NodeAt(_, _)
NodeAt(node, path) ==
    IF path = <<>> THEN node ELSE NodeAt(Children(node)[path[1]], Tail(path))

\* the occurrences in the rule list: the rule's position, then the path in it
RulePaths ==
    UNION {{<<i>> \o p : p \in PathsOf(rules[i].node)} : i \in 1..Len(rules)}

RuleNodeAt(path) == NodeAt(rules[path[1]].node, Tail(path))

\* p comes before q in pre-order: above it, or to its left
RECURSIVE Before(_, _)
Before(p, q) ==
    IF p = <<>> THEN q # <<>>
    ELSE IF q = <<>> THEN FALSE
    ELSE IF p[1] = q[1] THEN Before(Tail(p), Tail(q))
    ELSE p[1] < q[1]

Extractable(node) == node.kind \in {"Repetition", "Group", "Optional"} \/ IsRange(node)

ExtractablePaths == {p \in RulePaths : Extractable(RuleNodeAt(p))}

\* C12: the extractor returns the pre-order list, over the rules in
\* declaration order, of the Repetition, Group, Optional and Range node
\* occurrences: each occurrence once (equal occurrences are all kept), a
\* node before the nodes inside it, nothing else.
C12_ExtractionIsPreOrder ==
    pc = "start" =>
        /\ Len(extra_nodes) = Cardinality(ExtractablePaths)
        /\ \A p \in ExtractablePaths :
              extra_nodes[1 + Cardinality({q \in ExtractablePaths : Before(q, p)})]
                  = RuleNodeAt(p)

\* "a ( b / (a / c) )" is extracted: the outer group, then the inner one;
\* and a rule list in which an extracted node occurs twice is extracted
C12_Witness ==
    /\ pc = "start"
    /\ Len(rules) = 2
    /\ rules[1].node = Concatenation(<<RN("a"),
          Group(Alternatives(<<RN("b"), Group(Alternatives(<<RN("a"), RN("c")>>))>>))>>)
    /\ rules[2].node = Group(Alternatives(<<RN("a"), RN("b")>>))
    /\ extra_nodes =
         <<Group(Alternatives(<<RN("b"), Group(Alternatives(<<RN("a"), RN("c")>>))>>)),
           Group(Alternatives(<<RN("a"), RN("c")>>)),
           Group(Alternatives(<<RN("a"), RN("b")>>))>>

\* every node occurring in the rule list
AllNodes == {RuleNodeAt(p) : p \in RulePaths}

\* the kinds whose name is written between the markers
Compound(node) ==
    node.kind \in {"Alternatives", "Concatenation", "Repetition"} \/ IsRange(node)

\* the markers opened and not yet closed after the first k characters of s
Depth(s, k) ==
    Cardinality({i \in 1..k : s[i] = NESTED_RULE_START})
    - Cardinality({i \in 1..k : s[i] = NESTED_RULE_END})

\* s is one fragment between a matched pair of markers
Enclosed(s) ==
    /\ Len(s) >= 2
    /\ s[1] = NESTED_RULE_START
    /\ s[Len(s)] = NESTED_RULE_END
    /\ \A k \in 1..(Len(s) - 1) : Depth(s, k) >= 1

\* C13: the name of an Alternatives, Concatenation, Repetition or Range node
\* in non-toplevel position is its toplevel name between the open and the
\* close marker; its toplevel name has no outer marker pair; and a Group is
\* named as its inner node is, in either position.
C13_NestingMarkers ==
    pc = "start" =>
        \A n \in AllNodes :
            LET top == json_rule_name_from_group(n, TRUE)
                nested == json_rule_name_from_group(n, FALSE)
            IN  ~Failed(top) =>
                  /\ Compound(n) =>
                        /\ nested = <<NESTED_RULE_START>> \o top \o <<NESTED_RULE_END>>
                        /\ Enclosed(nested)
                        /\ ~Enclosed(top)
                  /\ n.kind = "Group" =>
                        \A t \in BOOLEAN :
                            json_rule_name_from_group(n, t)
                                = json_rule_name_from_group(n.node, t)

\* the inner group of "a ( b / (a / c) )" has just been written under the
\* name a-or-c, and the outer group is named b-or-(a-or-c) with the markers
C13_Witness ==
    /\ Pushed
    /\ Cur = Group(Alternatives(<<RN("a"), RN("c")>>))
    /\ rule_name = <<"a", "-", "o", "r", "-", "c">>
    /\ idx = 2
    /\ NameOf(1) = <<"b", "-", "o", "r", "-", NESTED_RULE_START,
                     "a", "-", "o", "r", "-", "c", NESTED_RULE_END>>

\* the prefix of a repetition's name, by the bounds given
PrefixOf(repeat) ==
    CASE repeat.kind = "Specific" -> Decimal(repeat.n)
      [] repeat.kind = "Variable" /\ repeat.min # None /\ repeat.max # None ->
            <<"b", "e", "t", "w", "e", "e", "n", "-">> \o Decimal(repeat.min[1]) \o <<"-", "a", "n", "d", "-">> \o Decimal(repeat.max[1])
      [] repeat.kind = "Variable" /\ repeat.min # None /\ repeat.max = None ->
            <<"a", "t", "-", "l", "e", "a", "s", "t", "-">> \o Decimal(repeat.min[1])
      [] repeat.kind = "Variable" /\ repeat.min = None /\ repeat.max # None ->
            <<"a", "t", "-", "m", "o", "s", "t", "-">> \o Decimal(repeat.max[1])
      [] repeat.kind = "Variable" /\ repeat.min = None /\ repeat.max = None ->
            <<"z", "e", "r", "o", "-", "o", "r", "-", "m", "o", "r", "e">>

\* the cases in which the name takes no plural "s"
Singular(repeat, inner) ==
    \/ repeat.kind = "Variable" /\ repeat.max = None /\ repeat.min = Some(1)
    \/ repeat.kind = "Variable" /\ repeat.min = None /\ repeat.max = Some(1)
    \/ inner.kind \in {"Group", "Repetition"}

\* C14: repetition_rule_name returns "{prefix}-{inner name}{suffix}": the
\* prefix is "{n}", "between-{a}-and-{b}", "at-least-{a}", "at-most-{b}" or
\* "zero-or-more" by the bounds, the inner name is the inner node's name in
\* the same position, and the suffix is empty iff the bounds are min-only
\* with a = 1 or max-only with b = 1 or the inner node is a Group or a
\* Repetition, and "s" otherwise.
C14_RepetitionName ==
    pc = "start" =>
        \A n \in AllNodes : \A t \in BOOLEAN :
            n.kind = "Repetition" =>
                LET inner == json_rule_name_from_group(n.node, t)
                IN  ~Failed(inner) =>
                        repetition_rule_name(n, t) =
                            PrefixOf(n.repeat) \o <<"-">> \o inner
                            \o (IF Singular(n.repeat, n.node) THEN <<>> ELSE <<"s">>)

\* "1*a" has just been written under the name at-least-1-a; "*a", "*2a" and
\* "1*2a" are named zero-or-more-as, at-most-2-as and between-1-and-2-as
C14_Witness ==
    /\ Pushed
    /\ Cur = Repetition(Variable(Some(1), None), RN("a"))
    /\ rule_name = <<"a", "t", "-", "l", "e", "a", "s", "t", "-", "1", "-", "a">>
    /\ repetition_rule_name(Cur, TRUE) = rule_name
    /\ repetition_rule_name(Repetition(ZeroOrMore, RN("a")), TRUE) = <<"z", "e", "r", "o", "-", "o", "r", "-", "m", "o", "r", "e", "-", "a", "s">>
    /\ repetition_rule_name(Repetition(Variable(None, Some(2)), RN("a")), TRUE) = <<"a", "t", "-", "m", "o", "s", "t", "-", "2", "-", "a", "s">>
    /\ repetition_rule_name(Repetition(Variable(Some(1), Some(2)), RN("a")), TRUE) = <<"b", "e", "t", "w", "e", "e", "n", "-", "1", "-", "a", "n", "d", "-", "2", "-", "a", "s">>

\* sub occurs in s at position i
OccursAt(s, sub, i) == i + Len(sub) - 1 <= Len(s) /\ SubSeq(s, i, i + Len(sub) - 1) = sub

Occurs(s, sub) == \E i \in 1..Len(s) : OccursAt(s, sub, i)

\* the three steps, each stated by its effect on the text
RECURSIVE Resanitized(_)
Resanitized(s) ==
    IF s = <<>> THEN <<>>
    ELSE IF Head(s) = "." THEN Resanitized(Tail(s))
    ELSE IF Head(s) = "_" THEN <<"u", "n", "d", "e", "r", "s", "c", "o", "r", "e">> \o Resanitized(Tail(s))
    ELSE IF OccursAt(s, <<"-", "-">>, 1) THEN <<"-", "m", "i", "n", "u", "s">> \o Resanitized(Tail(Tail(s)))
    ELSE <<Head(s)>> \o Resanitized(Tail(s))

\* C15: for every node, the string json_rule_name_from_group returns holds
\* no ".", no "_" and no "--", and removing ".", replacing "_" by
\* "underscore" and "--" by "-minus" again leaves it unchanged.
C15_NamesAreSanitized ==
    pc = "start" =>
        \A n \in AllNodes : \A t \in BOOLEAN :
            LET name == json_rule_name_from_group(n, t)
            IN  ~Failed(name) =>
                  /\ ~Occurs(name, <<".">>)
                  /\ ~Occurs(name, <<"_">>)
                  /\ ~Occurs(name, <<"-", "-">>)
                  /\ Resanitized(name) = name

\* the group ("-" "._") has just been written: joined, its name is
\* "--and-._", and its key is -minusand-underscore
C15_Witness ==
    /\ Pushed
    /\ Cur = Group(Concatenation(<<String(<<"-">>), String(<<".", "_">>)>>))
    /\ rule_name = <<"-", "m", "i", "n", "u", "s", "a", "n", "d", "-", "u", "n", "d", "e", "r", "s", "c", "o", "r", "e">>

\* C17: in every emitted grammar all keys are pairwise distinct: no extracted
\* rule's synthesized name equals another emitted extracted name, the name of
\* an original rule, or "start".
C17_KeysAreDistinct ==
    pc = "print" =>
        LET keys == Keys(ret)
        IN  \A i \in 1..Len(keys) : \A j \in 1..Len(keys) :
                i # j => keys[i] # keys[j]

\* C18: no emitted extracted rule has a body that is only a reference to its
\* own key; a Group directly wrapping an extracted node is emitted with the
\* wrapped node's own expansion.
C18_NoBareSelfReference ==
    Pushed => body # Quoted(rule_name)

\* the call has ended
Called == pc \in {"returned", "panicked", "diverged"}

\* the node json_rule_body_from_group was called on
CallNode == IF idx = 0 THEN rules[1].node ELSE Complete[idx]

IsZeroOrMore(node) == node.kind = "Repetition" /\ node.repeat = ZeroOrMore

\* node is a member of the extra_nodes argument
Listed(node) == \E i \in 1..Len(extra_nodes) : extra_nodes[i] = node

PointsOf(start, end) ==
    [i \in 1..(IF end >= start THEN end - start + 1 ELSE 0) |-> start + i - 1]

\* C20: the conversion aborts on no other input shape than a both-bounded
\* repetition: rules that are ranges and code-point sequences of any u32
\* values (values that are no Unicode scalar value, ranges with start > end)
\* are converted without failing; and the body of a Range is one alternative
\* per code point of [start, end].
C20_TerminalValuesNeverAbort ==
    /\ (\A i \in 1..Len(rules) : rules[i].node.kind = "TerminalValues") =>
          pc # "panicked"
    /\ (Pushed /\ IsRange(Cur)) =>
          LET points == PointsOf(Cur.tv.start, Cur.tv.end)
          IN  body = CommaJoined([i \in 1..Len(points) |->
                                    Sequence(<<DebugStr(CharOf(points[i]))>>)])

====
